---- MODULE Spec2Model ----
(***************************************************************************)
(* The viewport-synchronised spatial data engine of Pins (class Osm of the *)
(* Supabase-backed map module) as a state machine.                         *)
(*                                                                         *)
(* Units.  Longitudes and latitudes are integers counting 1e-4 degree, so  *)
(* BOUNDS_THRESHOLD (0.001 degree) is 10.  Times are integers counting     *)
(* milliseconds since the page was opened; a stored creation time keeps    *)
(* the microseconds below the millisecond apart (field us), as the store's *)
(* timestamps do.  Magnitudes are integers counting 1e-3.                  *)
(*                                                                         *)
(* Environment.  The browser's timers are ideal: a timer set for D ms runs *)
(* when exactly D ms have passed, and a timer that is due runs before any  *)
(* map event arriving at the same instant.  A moveend event is atomic: it  *)
(* carries the bounds map.getBounds() returns from then on.                *)
(***************************************************************************)
EXTENDS Integers, Sequences, FiniteSets, TLC

\* ------------------------------------------------------------ constants
BOUNDS_THRESHOLD == 10
DEBOUNCE_TIMEOUT == 300
HEATMAP_MAX_MAG == 5
MAGNITUDE_DECAY_DAYS == 30
MS_PER_DAY == 1000 * 60 * 60 * 24
MIN_MAP_ZOOM == 3
MAP_ZOOM == 11
MAX_MAP_ZOOM == 21
SOURCE_NAME == "sighting"

\* ------------------------------------------------------------ bounds
\* The clock stops at MaxTime.  A run takes at most MaxEvents events that
\* start work (moveend events, geolocate events, clicks in mark mode); a
\* run of the viewport controller alone takes at most MaxMoves moveend
\* events.
MaxTime == 600
MaxEvents == 2
MaxMoves == 3

\* A run that follows a viewport drifting in small steps goes on until
\* MaxDriftTime, the time three evaluations take.
MaxDriftTime == 900

\* The decay is computed for points up to MaxAgeDays days old at their
\* first fetch, each point weighed at most MaxWeighings times.
MaxAgeDays == 125
MaxWeighings == 3

\* start() is called, and the load event arrives, at most MaxCalls times.
MaxCalls == 2

\* The clock's steps: the debounce delay, or half of it where the timing
\* inside a debounce window matters.
CoarseTick == DEBOUNCE_TIMEOUT
FineTick == DEBOUNCE_TIMEOUT \div 2

\* ------------------------------------------------------------ values
Abs(x) == IF x < 0 THEN -x ELSE x
Max2(a, b) == IF a >= b THEN a ELSE b

\* An absent value (null) is the empty sequence, a present one <<v>>.
Null == <<>>
Some(v) == <<v>>

\* The default viewport and the viewports the user moves to: a pan east
\* by half the threshold, a pan east by the threshold, and a zoom that
\* moves only the south edge, by exactly the threshold.
B0 == [w |-> -1180000, s |-> 334000, e |-> -1176000, n |-> 336000]
Pan(b, dx) == [b EXCEPT !.w = @ + dx, !.e = @ + dx]
Views == { B0, Pan(B0, 5), Pan(B0, 10), [B0 EXCEPT !.s = @ - BOUNDS_THRESHOLD] }

\* Where the user clicks: Osm.MAP_COORDS, which every viewport shows, a
\* place just south of the default viewport, and a place on the copy of
\* the world the map draws east of the antimeridian, where the longitude
\* e.lngLat carries is 185 degrees.
MAP_COORDS == [lng |-> -1176591, lat |-> 335104]
ClickPositions == { MAP_COORDS, [lng |-> -1178000, lat |-> 333995],
                    [lng |-> 1850000, lat |-> 335104] }


\* ------------------------------------------------------------ state
VARIABLES
  map,            \* Osm.map: Null before start(), Some(MAP_DIV) after
  curBounds,      \* what Osm.map.getBounds() returns
  sourceAdded,    \* whether the map has the source SOURCE_NAME
  sourceData,     \* the features the source holds (a feature collection)
  isMarkModeOn,   \* Osm.isMarkModeOn
  lastBounds,     \* Osm.lastBounds
  heatmapTimeout, \* Osm.heatmapTimeout: a timer id, 0 for null
  timers,         \* the browser's pending timers: records [id, due]
  nextTimerId,    \* the id window.setTimeout returns next
  now,            \* the clock, in ms
  fetches,        \* calls of _heatmapAsync awaiting the store: [seq, bounds]
  fetchSeq,       \* number of store queries issued
  sightings,      \* calls of addSightingAsync awaiting: [id, lng, lat, pc, lookup, row]
  nextSighting,   \* number of clicks taken as submissions, plus one
  points,         \* the store's table of points
  nextPointId,    \* the id the store gives the next point
  events,         \* history: number of events that started work
  lastMoveTime,   \* history: time of the last moveend event, -1 before it
  lastEvalTime,   \* history: time of the last bounds evaluation, -1 before it
  burstMoves,     \* history: moveend events of the current burst
  burstEvals,     \* history: evaluations since the current burst began
  burstFetches,   \* history: controller fetches since the current burst began
  moveHist,       \* history: the bounds carried by the moveend events
  ctrlFetches,    \* history: calls of _heatmapAsync by the controller
  lastFetchBounds,\* history: bounds of the last query sent to the store
  resolved,       \* history: the fetch that came back last: [seq, outcome, data]
  lastWrite,      \* history: the last call of setData: [seq, data, at, replaced]
  writes,         \* history: the fetches that called setData, in that order
  userCalls,      \* history: the last calls of toggleMarkMode and clicks, in a row
  clickView,      \* history: the viewport at the last click taken as a submission
  lastLookup,     \* history: the answer of supabase.auth.getUser() just received
  movedSince,     \* history: a moveend event has come since the last answer to a query
  age,            \* decay: the age of a point at a fetch: [days, ms]
  mag,            \* decay: the magnitude computed for it, Null before
  weighings,      \* decay: number of times the point was weighed
  shown,          \* history: the last two fetches that called setData: [bounds, outcome, features, at]
  layer,          \* the layer built last: [fn, src, mag, zoom, spec], Null before
  sameAgain,      \* history: the last call repeated the one before, the engine having moved
  engineMoved,    \* history: a handler of the engine has run since the last call
  offInFlight,    \* history: the submissions in flight when mark mode was switched off, while it is off
  setup,          \* what start() and the load handler have made: [maps, handlers, sources,
                  \* layers], their calls [starts, loads], and the features the source
                  \* held at a repeated load event [kept]
  cursor,         \* Osm.map.getCanvas().style.cursor
  markMode        \* toolbox.markMode, Null before the component exists

ctrlVars == <<lastBounds, heatmapTimeout, timers, nextTimerId>>
fetchVars == <<fetches, fetchSeq, lastFetchBounds>>
srcVars == <<sourceData, resolved, lastWrite, writes>>
subVars == <<sightings, nextSighting, points, nextPointId>>
burstVars == <<lastMoveTime, lastEvalTime, burstMoves, burstEvals, burstFetches,
               moveHist, ctrlFetches>>
markObs == <<userCalls, clickView, lastLookup>>
retryObs == <<movedSince>>
decayVars == <<age, mag, weighings>>
storeObs == <<shown>>
layerVars == <<layer, sameAgain, engineMoved>>
flightObs == <<offInFlight>>
setupVars == <<setup>>
uiVars == <<cursor, markMode>>
restObs == <<flightObs, setupVars, uiVars>>
engineVars == <<map, curBounds, sourceAdded, isMarkModeOn, now, events,
                ctrlVars, fetchVars, srcVars, subVars, burstVars>>
vars == <<engineVars, markObs, retryObs, decayVars, storeObs, layerVars, restObs>>

MAP_DIV == "map"
ANONYMOUS == "anonymous"
Users == {"u1"}

\* ------------------------------------------------------------ the store
\* Points the store holds when the page opens: one a day old inside every
\* viewport, one two days old just south of the default viewport.
InitialPoints ==
  { [id |-> 1, lng |-> -1178000, lat |-> 335000,
     created_at |-> [ms |-> 0 - MS_PER_DAY, us |-> 0], user_id |-> "u1"],
    [id |-> 2, lng |-> -1178000, lat |-> 333995,
     created_at |-> [ms |-> 0 - 2 * MS_PER_DAY, us |-> 250], user_id |-> ANONYMOUS] }

\* A store with points on and beside the west edge of the default
\* viewport: one on the edge, one 1e-4 degree outside it, and one inside
\* with the creation time of the first.
EdgePoints ==
  { [id |-> 1, lng |-> -1180000, lat |-> 335000,
     created_at |-> [ms |-> 0 - MS_PER_DAY, us |-> 0], user_id |-> "u1"],
    [id |-> 2, lng |-> -1180001, lat |-> 335000,
     created_at |-> [ms |-> 0 - MS_PER_DAY, us |-> 0], user_id |-> "u1"],
    [id |-> 3, lng |-> -1178000, lat |-> 335000,
     created_at |-> [ms |-> 0 - MS_PER_DAY, us |-> 0], user_id |-> ANONYMOUS] }

\* A store whose clock is a second ahead of the client's: beside a point a
\* day old, one stamped a second after the page was opened.
AheadPoints ==
  { [id |-> 1, lng |-> -1178000, lat |-> 335000,
     created_at |-> [ms |-> 0 - MS_PER_DAY, us |-> 0], user_id |-> "u1"],
    [id |-> 2, lng |-> -1178000, lat |-> 335500,
     created_at |-> [ms |-> 1000, us |-> 0], user_id |-> "u1"] }

\* What the store may hold when the page opens.
Stores == {InitialPoints, EdgePoints, AheadPoints}

\* The sub-millisecond part the store's clock may give a new row.
StoreMicros == {0}

\* Mutant of the query's filter: the edges of the bounds are left out
\* (.gt and .lt).
InBounds_Strict(p, b) == /\ p.lng > b.w /\ p.lng < b.e
                         /\ p.lat > b.s /\ p.lat < b.n

\* .gte('lng', west).lte('lng', east).gte('lat', south).lte('lat', north)
InBounds(p, b) == /\ p.lng >= b.w /\ p.lng <= b.e
                  /\ p.lat >= b.s /\ p.lat <= b.n

\* created_at as the store orders it.
Newer(a, b) == \/ a.ms > b.ms
               \/ a.ms = b.ms /\ a.us > b.us

\* Mutant of the query: .order(...) is left out, the rows S come back in
\* any order.
RECURSIVE NewestFirst_Unordered(_)
NewestFirst_Unordered(S) ==
  IF S = {} THEN {<<>>}
  ELSE UNION { {<<p>> \o r : r \in NewestFirst_Unordered(S \ {p})} : p \in S }

\* .order('created_at', { ascending: false }): every order the store may
\* return the rows S in, rows of equal created_at in any order.
RECURSIVE NewestFirst(_)
NewestFirst(S) ==
  IF S = {} THEN {<<>>}
  ELSE UNION { {<<p>> \o r : r \in NewestFirst(S \ {p})} :
               p \in {q \in S : \A o \in S : ~Newer(o.created_at, q.created_at)} }

\* The answers the store may give to the query for the bounds b.
QueryResults(store, b) == NewestFirst({p \in store : InBounds(p, b)})


\* ------------------------------------------------------------ decay
\* floor(1000 * exp(-d / MAGNITUDE_DECAY_DAYS) * HEATMAP_MAX_MAG) for the
\* whole days d = 0 .. 120, where the value has fallen below the floor 0.1.
DecayTable ==
  << 5000, 4836, 4677, 4524, 4375, 4232, 4093, 3959, 3829, 3704, 3582, 3465,
     3351, 3241, 3135, 3032, 2933, 2837, 2744, 2654, 2567, 2482, 2401, 2322,
     2246, 2172, 2101, 2032, 1966, 1901, 1839, 1779, 1720, 1664, 1609, 1557,
     1505, 1456, 1408, 1362, 1317, 1274, 1232, 1192, 1153, 1115, 1079, 1043,
     1009, 976, 944, 913, 883, 854, 826, 799, 773, 747, 723, 699, 676, 654,
     633, 612, 592, 572, 554, 535, 518, 501, 484, 468, 453, 438, 424, 410,
     396, 383, 371, 359, 347, 336, 325, 314, 304, 294, 284, 275, 266, 257,
     248, 240, 232, 225, 217, 210, 203, 197, 190, 184, 178, 172, 166, 161,
     156, 150, 146, 141, 136, 132, 127, 123, 119, 115, 111, 108, 104, 101,
     97, 94, 91 >>

\* Osm.HEATMAP_MAX_MAG * Math.exp(-ageInDays / MAGNITUDE_DECAY_DAYS) for an
\* age >= 0 given in ms, in 1e-3, rounded down: the table at whole days,
\* and between two days the line between them, one second at a time.
DecayedAt(d, restMs) ==
  LET secs == (restMs + 999) \div 1000
  IN IF d + 2 > Len(DecayTable) THEN 0
     ELSE LET hi == DecayTable[d + 1]
              lo == DecayTable[d + 2]
          IN hi - (((hi - lo) * secs) + 86399) \div 86400

Decayed(ageMs) == DecayedAt(ageMs \div MS_PER_DAY, ageMs % MS_PER_DAY)

\* Mutant of the magnitude: the floor 0.1 is left out.
MagOfAge_NoFloor(d, restMs) == DecayedAt(d, restMs)

\* Mutant of the magnitude: the decay runs from 5 towards the floor 0.1
\* and never gets there.
MagOfAge_Asymptotic(d, restMs) == 100 + (4900 * DecayedAt(d, restMs)) \div 5000

\* mag = Math.max(0.1, ...) for an age >= 0 of d whole days and restMs ms.
MagOfAge(d, restMs) == Max2(100, DecayedAt(d, restMs))

\* mag = Math.max(0.1, ...): the magnitude of a point of the given age.
\* A creation time ahead of the client's clock makes the age negative and
\* the exponential greater than one.
Mag(ageMs) ==
  IF ageMs >= 0 THEN MagOfAge(ageMs \div MS_PER_DAY, ageMs % MS_PER_DAY)
  ELSE Max2(100, ((1000 * HEATMAP_MAX_MAG) * (1000 * HEATMAP_MAX_MAG))
                   \div Max2(1, Decayed(0 - ageMs)))

\* new Date(point.created_at).getTime(): the timestamp cut to milliseconds.
GetTime(created_at) == created_at.ms

\* The feature _heatmapAsync makes of a point at time t (Date.now()).
Feature(point, t) ==
  [ id |-> point.id,
    coordinates |-> <<point.lng, point.lat>>,
    mag |-> Mag(t - GetTime(point.created_at)),
    time |-> GetTime(point.created_at) ]

\* points?.map(...) || []: data is Some(rows), or Null when the store
\* answers with no data.
FeatureCollection(data, t) ==
  IF data = Null THEN <<>>
  ELSE [i \in 1..Len(data[1]) |-> Feature(data[1][i], t)]


\* ------------------------------------------------------------ layers
\* The numbers of a layer specification (zoom levels, magnitudes, radii,
\* opacities, densities) are integers counting tenths.
Tenths(x) == 10 * x

\* ["interpolate", ["linear"], input, in1, out1, in2, out2, ...]: stops is
\* the sequence of the pairs <<in, out>>.
Interpolate(input, stops) ==
  [op |-> "interpolate", curve |-> <<"linear">>, input |-> input, stops |-> stops]

\* The paint of the heatmap layer.
HeatmapPaint(maxMag, zoom) ==
  [ heatmap_weight |->
      Interpolate(<<"get", "mag">>, << <<0, 0>>, <<maxMag, Tenths(1)>> >>),
    heatmap_intensity |->
      Interpolate(<<"zoom">>, << <<zoom, Tenths(9)>>, <<Tenths(13), Tenths(3)>> >>),
    heatmap_color |->
      Interpolate(<<"heatmap-density">>,
                  << <<0, "rgba(33,102,172,0)">>, <<2, "rgb(103,169,207)">>,
                     <<4, "rgb(209,229,240)">>, <<6, "rgb(253,219,199)">>,
                     <<8, "rgb(239,138,98)">>, <<Tenths(1), "rgb(178,24,43)">> >>),
    heatmap_radius |->
      Interpolate(<<"zoom">>, << <<Tenths(1), Tenths(2)>>, <<Tenths(8), Tenths(4)>>,
                                 <<Tenths(13), Tenths(8)>> >>),
    heatmap_opacity |->
      Interpolate(<<"zoom">>, << <<zoom, Tenths(1)>>, <<Tenths(13), 0>> >>) ]

\* Mutant of createHeatmapLayer: in mark mode the layer is built for a
\* zoom one level higher.
CreateHeatmapLayer_Stateful(src, maxMag, zoom) ==
  [ id |-> <<src, "-heat">>,
    type |-> "heatmap",
    source |-> src,
    paint |-> HeatmapPaint(maxMag, IF isMarkModeOn THEN zoom + Tenths(1) ELSE zoom) ]

\* createHeatmapLayer(src, mag, zoom)
CreateHeatmapLayer(src, maxMag, zoom) ==
  [ id |-> <<src, "-heat">>,
    type |-> "heatmap",
    source |-> src,
    paint |-> HeatmapPaint(maxMag, zoom) ]

\* createCircleLayer(src, mag, minZoom)
CreateCircleLayer(src, maxMag, minZoom) ==
  [ id |-> <<src, "-point">>,
    type |-> "circle",
    source |-> src,
    minzoom |-> minZoom,
    paint |->
      [ circle_radius |->
          Interpolate(<<"zoom">>,
            << <<Tenths(1), Interpolate(<<"get", "mag">>,
                              << <<Tenths(1), Tenths(1)>>, <<maxMag, Tenths(2)>> >>)>>,
               <<Tenths(8), Interpolate(<<"get", "mag">>,
                              << <<Tenths(1), Tenths(2)>>, <<maxMag, Tenths(4)>> >>)>>,
               <<Tenths(13), Interpolate(<<"get", "mag">>,
                              << <<Tenths(1), Tenths(3)>>, <<maxMag, Tenths(6)>> >>)>> >>),
        circle_color |->
          Interpolate(<<"get", "mag">>,
                      << <<0, "rgba(33,102,172,0)">>, <<Tenths(1), "rgb(103,169,207)">>,
                         <<Tenths(2), "rgb(209,229,240)">>, <<Tenths(3), "rgb(253,219,199)">>,
                         <<Tenths(4), "rgb(239,138,98)">>, <<Tenths(5), "rgb(178,24,43)">> >>),
        circle_stroke_color |-> "white",
        circle_stroke_width |->
          Interpolate(<<"zoom">>, << <<Tenths(11), 0>>, <<Tenths(13), 25>> >>),
        circle_opacity |->
          Interpolate(<<"zoom">>, << <<Tenths(12), 5>>, <<125, Tenths(1)>> >>) ] ]

\* The arguments the builders are called with: the magnitudes 5
\* (Osm.HEATMAP_MAX_MAG), 0 and -1, and the zoom levels 3, 11, 13 and 21.
LayerMags == {Tenths(HEATMAP_MAX_MAG), 0, Tenths(-1)}
LayerZooms == {Tenths(MIN_MAP_ZOOM), Tenths(MAP_ZOOM), Tenths(13), Tenths(MAX_MAP_ZOOM)}
LayerFns == {"createHeatmapLayer", "createCircleLayer"}

\* ------------------------------------------------------------ controller
\* Mutants of Osm._boundsEqual: the threshold taken as inclusive, and the
\* bounds compared for identity.
BoundsEqual_Inclusive(bounds1, bounds2) ==
  /\ Abs(bounds1.w - bounds2.w) <= BOUNDS_THRESHOLD
  /\ Abs(bounds1.e - bounds2.e) <= BOUNDS_THRESHOLD
  /\ Abs(bounds1.n - bounds2.n) <= BOUNDS_THRESHOLD
  /\ Abs(bounds1.s - bounds2.s) <= BOUNDS_THRESHOLD

BoundsEqual_Exact(bounds1, bounds2) == bounds1 = bounds2

\* Osm._boundsEqual
BoundsEqual(bounds1, bounds2) ==
  /\ Abs(bounds1.w - bounds2.w) < BOUNDS_THRESHOLD
  /\ Abs(bounds1.e - bounds2.e) < BOUNDS_THRESHOLD
  /\ Abs(bounds1.n - bounds2.n) < BOUNDS_THRESHOLD
  /\ Abs(bounds1.s - bounds2.s) < BOUNDS_THRESHOLD

\* Mutant of clearTimeout: the timer is left pending.
ClearTimeout_Keep(ts, id) == ts

\* clearTimeout(id): the pending timers without the one of that id.
ClearTimeout(ts, id) == {t \in ts : t.id # id}

\* Mutant of setTimeout: the delay is dropped.
SetTimeout_NoDelay(id, t, delay) == [id |-> id, due |-> t]

\* window.setTimeout(callback, delay) at time t: the timer it adds.
SetTimeout(id, t, delay) == [id |-> id, due |-> t + delay]

\* The timers that are due: their callbacks run before the clock moves on.
Due == {t \in timers : t.due <= now}

\* Mutant of Osm._heatmapAsync: a new query aborts the ones in flight.
HeatmapAsync_Abort ==
  IF ~sourceAdded
  THEN UNCHANGED <<fetches, fetchSeq, lastFetchBounds>>
  ELSE /\ fetchSeq' = fetchSeq + 1
       /\ lastFetchBounds' = Some(curBounds)
       /\ fetches' = {[seq |-> fetchSeq + 1, bounds |-> curBounds]}

\* Mutant of Osm._heatmapAsync: the query is sent for the viewport the map
\* was opened with, not for the one it shows now.
HeatmapAsync_Stale ==
  IF ~sourceAdded
  THEN UNCHANGED <<fetches, fetchSeq, lastFetchBounds>>
  ELSE /\ fetchSeq' = fetchSeq + 1
       /\ lastFetchBounds' = Some(B0)
       /\ fetches' = fetches \cup {[seq |-> fetchSeq + 1, bounds |-> B0]}

\* Mutant of Osm._heatmapAsync: the query is sent without looking for the
\* source.
HeatmapAsync_Unchecked ==
  /\ fetchSeq' = fetchSeq + 1
  /\ lastFetchBounds' = Some(curBounds)
  /\ fetches' = fetches \cup {[seq |-> fetchSeq + 1, bounds |-> curBounds]}

\* Osm._heatmapAsync up to its await: without the source it returns, with
\* it the bounds are read and the query is sent.
HeatmapAsync ==
  IF ~sourceAdded
  THEN UNCHANGED <<fetches, fetchSeq, lastFetchBounds>>
  ELSE /\ fetchSeq' = fetchSeq + 1
       /\ lastFetchBounds' = Some(curBounds)
       /\ fetches' = fetches \cup {[seq |-> fetchSeq + 1, bounds |-> curBounds]}

\* Osm._debouncedHeatmap up to the timer's callback.
DebouncedHeatmap ==
  /\ timers' = (IF heatmapTimeout # 0
                THEN ClearTimeout(timers, heatmapTimeout)
                ELSE timers)
               \cup {SetTimeout(nextTimerId, now, DEBOUNCE_TIMEOUT)}
  /\ heatmapTimeout' = nextTimerId
  /\ nextTimerId' = nextTimerId + 1

\* ------------------------------------------------------------ actions
\* Osm.start(): a second call finds the map and returns.
Start ==
  /\ map' = Some(MAP_DIV)
  /\ UNCHANGED <<curBounds, sourceAdded, isMarkModeOn, now, events,
                 ctrlVars, fetchVars, srcVars, subVars, burstVars>>

\* Mutant of the load handler: the source is added again, empty, at every
\* load event.
Load_Reset ==
  /\ map # Null
  /\ sourceAdded' = TRUE
  /\ sourceData' = <<>>
  /\ UNCHANGED <<map, curBounds, isMarkModeOn, now, events, resolved, lastWrite,
                 writes, ctrlVars, fetchVars, subVars, burstVars>>

\* The map's load event: Osm._initializeSource(), then geolocate.trigger(),
\* whose positions arrive as geolocate events.
Load ==
  /\ map # Null
  /\ sourceAdded' = TRUE
  /\ sourceData' = (IF sourceAdded THEN sourceData ELSE <<>>)
  /\ UNCHANGED <<map, curBounds, isMarkModeOn, now, events, resolved, lastWrite,
                 writes, ctrlVars, fetchVars, subVars, burstVars>>

\* A geolocate event: Osm._heatmapAsync().
Geolocate ==
  /\ map # Null
  /\ events' = events + 1
  /\ HeatmapAsync
  /\ UNCHANGED <<map, curBounds, sourceAdded, isMarkModeOn, now,
                 ctrlVars, srcVars, subVars, burstVars>>

\* A moveend event carrying the bounds b: Osm._debouncedHeatmap().
MoveEnd(b) ==
  /\ map # Null
  /\ Due = {}
  /\ curBounds' = b
  /\ DebouncedHeatmap
  /\ events' = events + 1
  /\ lastMoveTime' = now
  /\ moveHist' = moveHist \cup {b}
  /\ IF lastMoveTime < 0 \/ now - lastMoveTime >= DEBOUNCE_TIMEOUT
     THEN burstMoves' = 1 /\ burstEvals' = 0 /\ burstFetches' = 0
     ELSE burstMoves' = burstMoves + 1 /\ UNCHANGED <<burstEvals, burstFetches>>
  /\ UNCHANGED <<map, sourceAdded, isMarkModeOn, now, lastBounds, lastEvalTime,
                 ctrlFetches, fetchVars, srcVars, subVars>>

\* Mutant of the timer's callback: the current bounds are recorded at
\* every evaluation, fetch or no fetch.
TimerFire_Rebase(t) ==
  /\ t \in Due
  /\ timers' = timers \ {t}
  /\ burstEvals' = burstEvals + 1
  /\ lastEvalTime' = now
  /\ lastBounds' = Some(curBounds)
  /\ IF lastBounds = Null \/ ~BoundsEqual(curBounds, lastBounds[1])
     THEN /\ HeatmapAsync
          /\ ctrlFetches' = ctrlFetches + 1
          /\ burstFetches' = burstFetches + 1
     ELSE UNCHANGED <<fetchVars, ctrlFetches, burstFetches>>
  /\ UNCHANGED <<map, curBounds, sourceAdded, isMarkModeOn, now, events,
                 heatmapTimeout, nextTimerId, lastMoveTime, burstMoves, moveHist,
                 srcVars, subVars>>

\* The callback of the debounce timer t.
TimerFire(t) ==
  /\ t \in Due
  /\ timers' = timers \ {t}
  /\ burstEvals' = burstEvals + 1
  /\ lastEvalTime' = now
  /\ IF lastBounds = Null \/ ~BoundsEqual(curBounds, lastBounds[1])
     THEN /\ lastBounds' = Some(curBounds)
          /\ HeatmapAsync
          /\ ctrlFetches' = ctrlFetches + 1
          /\ burstFetches' = burstFetches + 1
     ELSE UNCHANGED <<lastBounds, fetchVars, ctrlFetches, burstFetches>>
  /\ UNCHANGED <<map, curBounds, sourceAdded, isMarkModeOn, now, events,
                 heatmapTimeout, nextTimerId, lastMoveTime, burstMoves, moveHist,
                 srcVars, subVars>>

\* The clock moves on by d ms, unless a timer is due.
Tick(d) ==
  /\ Due = {}
  /\ now + d <= MaxTime
  /\ now' = now + d
  /\ UNCHANGED <<map, curBounds, sourceAdded, isMarkModeOn, events,
                 ctrlVars, fetchVars, srcVars, subVars, burstVars>>

\* The clock moves on by d ms up to the time limit, unless a timer is due.
TickUntil(d, limit) ==
  /\ Due = {}
  /\ now + d <= limit
  /\ now' = now + d
  /\ UNCHANGED <<map, curBounds, sourceAdded, isMarkModeOn, events,
                 ctrlVars, fetchVars, srcVars, subVars, burstVars>>

\* Mutants of setData: the new features are appended to the old ones, and
\* the old features the answer does not name are kept.
SetData_Append(old, geojson) == old \o geojson

SetData_Merge(old, geojson) ==
  LET Kept(ft) == \A i \in 1..Len(geojson) : geojson[i].id # ft.id
  IN geojson \o SelectSeq(old, Kept)

\* Mutant of setData: an empty collection is not taken.
SetData_KeepIfEmpty(old, geojson) == IF geojson = <<>> THEN old ELSE geojson

\* src.setData(geojson): what the source holds afterwards.
SetData(old, geojson) == geojson

\* The ways the awaited store query of a fetch may end: with rows, with
\* neither data nor error, with an error, or by throwing.
QueryOutcomes == {"ok", "nodata", "error", "throw"}

\* Mutant: the error branch and the catch block fall through to setData.
ReachesSetData_Always(outcome) == TRUE

\* Whether _heatmapAsync gets as far as setData: not past `if (error)
\* return`, and not from the catch block.
ReachesSetData(outcome) == outcome \notin {"error", "throw"}

\* The data a fetch for the bounds b may come back with, by outcome: the
\* rows of its query, or none.
Answers(b, outcome) ==
  IF outcome = "ok" THEN {Some(r) : r \in QueryResults(points, b)} ELSE {Null}

\* Osm._heatmapAsync after its await, for the fetch f: the store returned
\* an error or the call threw (logged, nothing else), or it answered with
\* data (rows, or none) and the source is given the features made of them.
HeatmapResolve(f, outcome, data) ==
  /\ f \in fetches
  /\ fetches' = fetches \ {f}
  /\ resolved' = [seq |-> f.seq, outcome |-> outcome, data |-> data]
  /\ CASE outcome = "ok" ->
            /\ data # Null
            /\ data[1] \in QueryResults(points, f.bounds)
       [] OTHER -> data = Null
  /\ IF ReachesSetData(outcome)
     THEN /\ sourceData' = SetData(sourceData, FeatureCollection(data, now))
          /\ lastWrite' = [seq |-> f.seq, data |-> data, at |-> now,
                           replaced |-> Len(sourceData)]
          /\ writes' = Append(writes, f.seq)
     ELSE UNCHANGED <<sourceData, lastWrite, writes>>
  /\ UNCHANGED <<map, curBounds, sourceAdded, isMarkModeOn, now, events,
                 fetchSeq, lastFetchBounds, ctrlVars, subVars, burstVars>>

\* Mutant of Osm.addSightingAsync: the click is taken as a submission
\* whatever the mode.
Click_Unguarded(pos) ==
  /\ map # Null
  /\ events' = events + 1
  /\ sightings' = sightings \cup
       {[id |-> nextSighting, lng |-> pos.lng, lat |-> pos.lat,
         pc |-> "getUser", lookup |-> Null, row |-> Null]}
  /\ nextSighting' = nextSighting + 1
  /\ UNCHANGED <<map, curBounds, sourceAdded, isMarkModeOn, now, points,
                 nextPointId, ctrlVars, fetchVars, srcVars, burstVars>>

\* A click on the map at pos (e.lngLat): Osm.addSightingAsync up to its
\* first await.  Outside mark mode it returns at once; in mark mode the
\* user is asked for (pc = "getUser").
Click(pos) ==
  /\ map # Null
  /\ IF ~isMarkModeOn
     THEN UNCHANGED <<sightings, nextSighting, events>>
     ELSE /\ events' = events + 1
          /\ sightings' = sightings \cup
               {[id |-> nextSighting, lng |-> pos.lng, lat |-> pos.lat,
                 pc |-> "getUser", lookup |-> Null, row |-> Null]}
          /\ nextSighting' = nextSighting + 1
  /\ UNCHANGED <<map, curBounds, sourceAdded, isMarkModeOn, now, points,
                 nextPointId, ctrlVars, fetchVars, srcVars, burstVars>>

\* What supabase.auth.getUser() may come back with: the signed-in user,
\* no user (Null), or a throw.
GetUserAnswers == {[outcome |-> "ok", user |-> Some(u)] : u \in Users}
                  \cup {[outcome |-> "ok", user |-> Null],
                        [outcome |-> "throw", user |-> Null]}

\* The answer of supabase.auth.getUser() that carries an error beside the
\* absent user, as it does without a session: only data.user is read.
GetUserErrors == {[outcome |-> "error", user |-> Null]}

\* Mutant of the owner: the sentinel, whoever is signed in.
UserId_Anonymous(user) == ANONYMOUS

\* user?.id || 'anonymous'
UserId(user) == IF user # Null THEN user[1] ELSE ANONYMOUS

\* The row handed to .insert([...]) for the click e and the owner userId.
InsertRow(e, userId) == [lng |-> e.lng, lat |-> e.lat, user_id |-> userId]

\* supabase.auth.getUser() comes back for the submission sg with the
\* answer a: the insert is sent for the user (pc = "insert", row the
\* request), or the throw is logged.
GetUserResolve(sg, a) ==
  /\ sg \in sightings
  /\ sg.pc = "getUser"
  /\ IF a.outcome # "throw"
     THEN sightings' = (sightings \ {sg}) \cup
            {[sg EXCEPT !.pc = "insert", !.lookup = Some(a),
                        !.row = Some(InsertRow(sg, UserId(a.user)))]}
     ELSE sightings' = sightings \ {sg}
  /\ UNCHANGED <<map, curBounds, sourceAdded, isMarkModeOn, now, events,
                 nextSighting, points, nextPointId,
                 ctrlVars, fetchVars, srcVars, burstVars>>

\* The row the store keeps for the request row, with its own id and clock.
StoredPoint(row, id, ms, us) ==
  [id |-> id, lng |-> row.lng, lat |-> row.lat,
   created_at |-> [ms |-> ms, us |-> us], user_id |-> row.user_id]

\* Mutant of the insert's continuation: the new point is also put into
\* the source at once, before any fetch.
InsertResolve_Optimistic(sg, outcome, us) ==
  /\ sg \in sightings
  /\ sg.pc = "insert"
  /\ sightings' = sightings \ {sg}
  /\ IF outcome = "ok"
     THEN /\ points' = points \cup {StoredPoint(sg.row[1], nextPointId, now, us)}
          /\ nextPointId' = nextPointId + 1
          /\ sourceData' = Append(sourceData,
               [id |-> nextPointId, coordinates |-> <<sg.lng, sg.lat>>,
                mag |-> 1000 * HEATMAP_MAX_MAG, time |-> now])
          /\ HeatmapAsync
     ELSE /\ us = 0
          /\ UNCHANGED <<points, nextPointId, fetchVars, sourceData>>
  /\ UNCHANGED <<map, curBounds, sourceAdded, isMarkModeOn, now, events,
                 nextSighting, ctrlVars, resolved, lastWrite, writes, burstVars>>

\* Mutant of the insert's continuation: Osm._heatmapAsync() is called
\* whatever the insert came back with.
InsertResolve_Eager(sg, outcome, us) ==
  /\ sg \in sightings
  /\ sg.pc = "insert"
  /\ sightings' = sightings \ {sg}
  /\ HeatmapAsync
  /\ IF outcome = "ok"
     THEN /\ points' = points \cup {StoredPoint(sg.row[1], nextPointId, now, us)}
          /\ nextPointId' = nextPointId + 1
     ELSE /\ us = 0
          /\ UNCHANGED <<points, nextPointId>>
  /\ UNCHANGED <<map, curBounds, sourceAdded, isMarkModeOn, now, events,
                 nextSighting, ctrlVars, srcVars, burstVars>>

\* Mutant of the insert's continuation: the fetch after the insert also
\* records the bounds it asks for, as the controller's does.
InsertResolve_Recording(sg, outcome, us) ==
  /\ sg \in sightings
  /\ sg.pc = "insert"
  /\ sightings' = sightings \ {sg}
  /\ IF outcome = "ok"
     THEN /\ points' = points \cup {StoredPoint(sg.row[1], nextPointId, now, us)}
          /\ nextPointId' = nextPointId + 1
          /\ lastBounds' = Some(curBounds)
          /\ HeatmapAsync
     ELSE /\ us = 0
          /\ UNCHANGED <<points, nextPointId, fetchVars, lastBounds>>
  /\ UNCHANGED <<map, curBounds, sourceAdded, isMarkModeOn, now, events,
                 nextSighting, heatmapTimeout, timers, nextTimerId, srcVars, burstVars>>

\* Mutant of the insert's continuation: the mode is looked at again
\* before the fetch, which is left out when mark mode is off.
InsertResolve_ModeChecked(sg, outcome, us) ==
  /\ sg \in sightings
  /\ sg.pc = "insert"
  /\ sightings' = sightings \ {sg}
  /\ IF outcome = "ok"
     THEN /\ points' = points \cup {StoredPoint(sg.row[1], nextPointId, now, us)}
          /\ nextPointId' = nextPointId + 1
          /\ IF isMarkModeOn THEN HeatmapAsync ELSE UNCHANGED fetchVars
     ELSE /\ us = 0
          /\ UNCHANGED <<points, nextPointId, fetchVars>>
  /\ UNCHANGED <<map, curBounds, sourceAdded, isMarkModeOn, now, events,
                 nextSighting, ctrlVars, srcVars, burstVars>>

\* The insert of the submission sg comes back: with an error or a throw
\* (logged), or with success, the row stored with the store's id and clock
\* (its sub-millisecond part us), and then Osm._heatmapAsync().
InsertResolve(sg, outcome, us) ==
  /\ sg \in sightings
  /\ sg.pc = "insert"
  /\ sightings' = sightings \ {sg}
  /\ IF outcome = "ok"
     THEN /\ points' = points \cup {StoredPoint(sg.row[1], nextPointId, now, us)}
          /\ nextPointId' = nextPointId + 1
          /\ HeatmapAsync
     ELSE /\ us = 0
          /\ UNCHANGED <<points, nextPointId, fetchVars>>
  /\ UNCHANGED <<map, curBounds, sourceAdded, isMarkModeOn, now, events,
                 nextSighting, ctrlVars, srcVars, burstVars>>

\* Mutants of Osm.toggleMarkMode(): the flag is flipped without looking
\* for the map, and the flag is set rather than flipped.
ToggleMarkMode_Unguarded ==
  /\ isMarkModeOn' = ~isMarkModeOn
  /\ UNCHANGED <<map, curBounds, sourceAdded, now, events,
                 ctrlVars, fetchVars, srcVars, subVars, burstVars>>

ToggleMarkMode_Set ==
  /\ isMarkModeOn' = (IF map = Null THEN isMarkModeOn ELSE TRUE)
  /\ UNCHANGED <<map, curBounds, sourceAdded, now, events,
                 ctrlVars, fetchVars, srcVars, subVars, burstVars>>

\* Osm.toggleMarkMode(): without a map it logs and returns.
ToggleMarkMode ==
  /\ isMarkModeOn' = (IF map = Null THEN isMarkModeOn ELSE ~isMarkModeOn)
  /\ UNCHANGED <<map, curBounds, sourceAdded, now, events,
                 ctrlVars, fetchVars, srcVars, subVars, burstVars>>

\* Mutant of the cursor of mark mode: the crosshair when the mode is off.
ToggleCursor_Inverted(on) == IF on THEN "" ELSE "crosshair"

\* Osm.isMarkModeOn ? "crosshair" : ""
ToggleCursor(on) == IF on THEN "crosshair" ELSE ""

\* The toolbox component is created, after Osm.start(): its markMode is
\* given the engine's flag.
ToolboxCreate ==
  /\ map # Null
  /\ markMode = Null
  /\ markMode' = Some(isMarkModeOn)
  /\ UNCHANGED <<engineVars, markObs, retryObs, decayVars, storeObs, layerVars,
                 flightObs, setupVars, cursor>>

\* A call of one of the layer builders, fn, by any caller (as by
\* Osm._initializeSource): the specification it returns.
CreateLayer(fn, src, maxMag, zoom) ==
  /\ layer' = Some([fn |-> fn, src |-> src, mag |-> maxMag, zoom |-> zoom,
                    spec |-> IF fn = "createHeatmapLayer"
                             THEN CreateHeatmapLayer(src, maxMag, zoom)
                             ELSE CreateCircleLayer(src, maxMag, zoom)])
  /\ UNCHANGED <<engineVars, markObs, retryObs, decayVars, storeObs, restObs>>

\* ------------------------------------------------------------ decay steps
\* The ages a point may have at its first fetch, and the time that may
\* pass until it is fetched again.
StartAges == {[days |-> d, ms |-> 0] : d \in 0..MaxAgeDays}
FetchDelays == {1, 1000, DEBOUNCE_TIMEOUT, MS_PER_DAY \div 2, MS_PER_DAY}

\* The age a, d ms later.
Later(a, d) == [days |-> a.days + (a.ms + d) \div MS_PER_DAY,
                ms |-> (a.ms + d) % MS_PER_DAY]

\* A fetch returns the point for the first time: its magnitude is computed.
Weigh ==
  /\ mag = Null
  /\ mag' = Some(MagOfAge(age.days, age.ms))
  /\ weighings' = weighings + 1
  /\ UNCHANGED <<age, engineVars, markObs, retryObs, storeObs, layerVars, restObs>>

\* A fetch returns the point again, d ms later.
Reweigh(d) ==
  /\ mag # Null
  /\ weighings < MaxWeighings
  /\ age' = Later(age, d)
  /\ mag' = Some(MagOfAge(Later(age, d).days, Later(age, d).ms))
  /\ weighings' = weighings + 1
  /\ UNCHANGED <<engineVars, markObs, retryObs, storeObs, layerVars, restObs>>

\* ------------------------------------------------------------ observation
\* The last two of a sequence.
LastTwo(q) == IF Len(q) <= 2 THEN q ELSE SubSeq(q, Len(q) - 1, Len(q))

\* A call by the user (toggleMarkMode, or a click) is put on record with
\* the mode it found.
Called(op) ==
  /\ userCalls' = LastTwo(Append(userCalls, [op |-> op, on |-> isMarkModeOn]))
  /\ UNCHANGED <<clickView, lastLookup, retryObs, decayVars, storeObs, layerVars, restObs>>

\* Any other handler ends the row of calls.
Interrupted ==
  /\ userCalls' = <<>>
  /\ UNCHANGED <<clickView, lastLookup, retryObs, decayVars, storeObs, layerVars, restObs>>

\* A click is put on record with the viewport it was made in, if it is
\* taken as a submission.
Clicked ==
  /\ clickView' = (IF isMarkModeOn THEN Some(curBounds) ELSE clickView)
  /\ lastLookup' = Null
  /\ UNCHANGED <<userCalls, retryObs, decayVars, storeObs, layerVars, restObs>>

\* The answer a of supabase.auth.getUser() is put on record.
Looked(a) ==
  /\ lastLookup' = Some(a)
  /\ UNCHANGED <<userCalls, clickView, retryObs, decayVars, storeObs, layerVars, restObs>>

\* Any other handler: the answer on record is forgotten.
Passed ==
  /\ lastLookup' = Null
  /\ UNCHANGED <<userCalls, clickView, retryObs, decayVars, storeObs, layerVars, restObs>>

\* A call of toggleMarkMode that switches mark mode off: the submissions
\* in flight are put on record, each with the await it is at, until mark
\* mode is switched on again.
SwitchedOff ==
  /\ offInFlight' = (IF map = Null THEN offInFlight
                     ELSE IF isMarkModeOn THEN sightings ELSE {})
  /\ lastLookup' = Null
  /\ UNCHANGED <<userCalls, clickView, retryObs, decayVars, storeObs, layerVars,
                 setupVars, uiVars>>

\* What a call of start() makes: the map, and the handlers registered on
\* it and on the geolocate control, unless the map is there.
Created ==
  /\ setup' = [setup EXCEPT
                 !.starts = @ + 1,
                 !.maps = IF map = Null THEN @ + 1 ELSE @,
                 !.handlers = IF map = Null THEN @ + 1 ELSE @]
  /\ UNCHANGED <<markObs, retryObs, decayVars, storeObs, layerVars, flightObs, uiVars>>

\* What Osm._initializeSource() makes at a load event: the source and its
\* two layers, unless the map has the source; a repeated load event is put
\* on record with the number of features the source holds.
Sourced ==
  /\ setup' = [setup EXCEPT
                 !.loads = @ + 1,
                 !.sources = IF sourceAdded THEN @ ELSE @ + 1,
                 !.layers = IF sourceAdded THEN @
                            ELSE @ \o <<CreateHeatmapLayer(SOURCE_NAME,
                                          Tenths(HEATMAP_MAX_MAG), Tenths(MAP_ZOOM)),
                                        CreateCircleLayer(SOURCE_NAME,
                                          Tenths(HEATMAP_MAX_MAG), Tenths(MIN_MAP_ZOOM))>>,
                 !.kept = IF sourceAdded THEN Len(sourceData) ELSE @]
  /\ UNCHANGED <<markObs, retryObs, decayVars, storeObs, layerVars, flightObs, uiVars>>

\* toolbox.toggleMarkMode(), around its call of Osm.toggleMarkMode(): the
\* canvas is given the cursor of the new mode, if there is a map, and
\* markMode the engine's flag.
ToolboxToggled ==
  /\ cursor' = (IF map = Null THEN cursor ELSE ToggleCursor(isMarkModeOn'))
  /\ markMode' = Some(isMarkModeOn')
  /\ UNCHANGED <<markObs, retryObs, decayVars, storeObs, layerVars,
                 flightObs, setupVars>>

\* Nothing is put on record.
Unwatched == UNCHANGED <<markObs, retryObs, decayVars, storeObs, layerVars, restObs>>

\* A fetch that reaches setData is put on record with its bounds, the
\* way its query ended, the features it gave the source and the time.
Showed(f, outcome) ==
  /\ shown' = (IF ReachesSetData(outcome)
               THEN LastTwo(Append(shown, [bounds |-> f.bounds, outcome |-> outcome,
                                           features |-> sourceData', at |-> now]))
               ELSE shown)
  /\ UNCHANGED <<markObs, retryObs, decayVars, layerVars, restObs>>

\* A handler of the engine has run: whether it changed the engine's state
\* is put on record.
Ran ==
  /\ engineMoved' = (engineMoved \/ engineVars' # engineVars)
  /\ UNCHANGED <<layer, sameAgain, markObs, retryObs, decayVars, storeObs, restObs>>

\* A call of a layer builder is put on record: whether it has the
\* arguments of the call before it, made in another state of the engine.
Repeated(fn, src, maxMag, zoom) ==
  /\ sameAgain' = /\ layer # Null
                  /\ engineMoved
                  /\ layer[1].fn = fn /\ layer[1].src = src
                  /\ layer[1].mag = maxMag /\ layer[1].zoom = zoom
  /\ engineMoved' = FALSE

\* A moveend event is put on record, until the next answer to a query.
Moved ==
  /\ movedSince' = TRUE
  /\ UNCHANGED <<markObs, decayVars, storeObs, layerVars, restObs>>

\* An answer to a query: the moveend events before it are forgotten.
Answered ==
  /\ movedSince' = FALSE
  /\ UNCHANGED <<markObs, decayVars, storeObs, layerVars, restObs>>

\* ------------------------------------------------------------ specification
InitPage ==
  /\ map = Null
  /\ curBounds = B0
  /\ sourceAdded = FALSE
  /\ sourceData = <<>>
  /\ isMarkModeOn = FALSE
  /\ lastBounds = Null
  /\ heatmapTimeout = 0
  /\ timers = {}
  /\ nextTimerId = 1
  /\ now = 0
  /\ fetches = {}
  /\ fetchSeq = 0
  /\ sightings = {}
  /\ nextSighting = 1
  /\ nextPointId = 3
  /\ events = 0
  /\ lastMoveTime = -1
  /\ lastEvalTime = -1
  /\ burstMoves = 0
  /\ burstEvals = 0
  /\ burstFetches = 0
  /\ moveHist = {}
  /\ ctrlFetches = 0
  /\ lastFetchBounds = Null
  /\ resolved = [seq |-> 0, outcome |-> "none", data |-> Null]
  /\ lastWrite = [seq |-> 0, data |-> Null, at |-> 0, replaced |-> 0]
  /\ writes = <<>>
  /\ userCalls = <<>>
  /\ clickView = Null
  /\ lastLookup = Null
  /\ movedSince = FALSE
  /\ shown = Null
  /\ layer = Null
  /\ sameAgain = FALSE
  /\ engineMoved = FALSE
  /\ offInFlight = {}
  /\ setup = [maps |-> 0, handlers |-> 0, sources |-> 0, layers |-> <<>>,
              starts |-> 0, loads |-> 0, kept |-> 0]
  /\ cursor = ""
  /\ markMode = Null

InitEngine ==
  /\ InitPage
  /\ points = InitialPoints

Init ==
  /\ InitEngine
  /\ age = [days |-> 0, ms |-> 0]
  /\ mag = Null
  /\ weighings = 0

\* Every handler of the engine, the clock moving in steps of the debounce
\* delay.
Next ==
  \/ Start /\ Unwatched
  \/ Load /\ Unwatched
  \/ events < MaxEvents /\ Geolocate /\ Unwatched
  \/ events < MaxEvents /\ (\E b \in Views : MoveEnd(b)) /\ Unwatched
  \/ (\E t \in timers : TimerFire(t)) /\ Unwatched
  \/ Tick(CoarseTick) /\ Unwatched
  \/ \E f \in fetches, outcome \in QueryOutcomes :
       \E data \in Answers(f.bounds, outcome) :
         HeatmapResolve(f, outcome, data) /\ Unwatched
  \/ (isMarkModeOn => events < MaxEvents) /\ Click(MAP_COORDS) /\ Unwatched
  \/ \E sg \in sightings, a \in GetUserAnswers :
       GetUserResolve(sg, a) /\ Unwatched
  \/ \E sg \in sightings, outcome \in {"ok", "error", "throw"}, us \in StoreMicros :
       InsertResolve(sg, outcome, us) /\ Unwatched
  \/ ToggleMarkMode /\ Unwatched

Spec == Init /\ [][Next]_vars

\* The viewport controller and its fetches alone, the clock moving in
\* steps of half the debounce delay.
NextViewport ==
  \/ Start /\ Unwatched
  \/ Load /\ Unwatched
  \/ events < MaxMoves /\ (\E b \in Views : MoveEnd(b)) /\ Moved
  \/ (\E t \in timers : TimerFire(t)) /\ Unwatched
  \/ Tick(FineTick) /\ Unwatched
  \/ \E f \in fetches, outcome \in QueryOutcomes :
       \E data \in Answers(f.bounds, outcome) :
         HeatmapResolve(f, outcome, data) /\ Answered

SpecViewport == Init /\ [][NextViewport]_vars

\* Mark mode with the user's calls on record: calls of toggleMarkMode and
\* clicks on Osm.MAP_COORDS, and the submissions and fetches that follow.
\* The clock stands still, so every fetch is one a submission asked for.
NextToggle ==
  \/ Start /\ Interrupted
  \/ Load /\ Interrupted
  \/ ToggleMarkMode /\ Called("toggle")
  \/ (isMarkModeOn => events < MaxEvents) /\ Click(MAP_COORDS) /\ Called("click")
  \/ \E sg \in sightings, a \in GetUserAnswers :
       GetUserResolve(sg, a) /\ Interrupted
  \/ \E sg \in sightings, outcome \in {"ok", "error", "throw"}, us \in StoreMicros :
       InsertResolve(sg, outcome, us) /\ Interrupted
  \/ \E f \in fetches, outcome \in QueryOutcomes :
       \E data \in Answers(f.bounds, outcome) :
         HeatmapResolve(f, outcome, data) /\ Interrupted

SpecToggle == Init /\ [][NextToggle]_vars

\* The submissions, with the viewport of the click and the answer of the
\* user lookup on record.  The user clicks on Osm.MAP_COORDS or east of the
\* antimeridian, and zooms between the default viewport and the one
\* reaching further south; the clock stands still, so every fetch is one a
\* submission asked for.
MarkClicks == {pos \in ClickPositions : pos.lat = MAP_COORDS.lat}
MarkViews == {b \in Views : b.w = B0.w}

NextMark ==
  \/ Start /\ Passed
  \/ Load /\ Passed
  \/ ToggleMarkMode /\ Passed
  \/ \E pos \in MarkClicks :
       (isMarkModeOn => events < MaxEvents) /\ Click(pos) /\ Clicked
  \/ events < MaxEvents /\ (\E b \in MarkViews : MoveEnd(b)) /\ Passed
  \/ \E sg \in sightings, a \in GetUserAnswers \cup GetUserErrors :
       GetUserResolve(sg, a) /\ Looked(a)
  \/ \E sg \in sightings, outcome \in {"ok", "error", "throw"}, us \in StoreMicros :
       InsertResolve(sg, outcome, us) /\ Passed
  \/ \E f \in fetches, outcome \in QueryOutcomes :
       \E data \in Answers(f.bounds, outcome) :
         HeatmapResolve(f, outcome, data) /\ Passed

SpecMark == Init /\ [][NextMark]_vars

\* The decay alone: a point of some age, weighed at one fetch after
\* another.
InitDecay ==
  /\ InitEngine
  /\ age \in StartAges
  /\ mag = Null
  /\ weighings = 0

NextDecay ==
  \/ Weigh
  \/ \E d \in FetchDelays : Reweigh(d)

SpecDecay == InitDecay /\ [][NextDecay]_vars

\* The fetches against a store nobody writes to: whatever the store holds
\* when the page opens, the user is located, and pans between the default
\* viewport and one a degree east of it, where no point is.
StoreViews == {B0, Pan(B0, 10000)}

InitStore ==
  /\ InitPage
  /\ points \in Stores
  /\ age = [days |-> 0, ms |-> 0]
  /\ mag = Null
  /\ weighings = 0

NextStore ==
  \/ Start /\ Unwatched
  \/ Load /\ Unwatched
  \/ events < MaxEvents /\ Geolocate /\ Unwatched
  \/ events < MaxEvents /\ (\E b \in StoreViews : MoveEnd(b)) /\ Unwatched
  \/ (\E t \in timers : TimerFire(t)) /\ Unwatched
  \/ Tick(CoarseTick) /\ Unwatched
  \/ \E f \in fetches, outcome \in QueryOutcomes :
       \E data \in Answers(f.bounds, outcome) :
         HeatmapResolve(f, outcome, data) /\ Showed(f, outcome)

SpecStore == InitStore /\ [][NextStore]_vars

\* The layer builders, called at any time while the engine runs: the user
\* pans east by the threshold and switches mark mode, and the store
\* answers every query with the rows.
NextLayers ==
  \/ Start /\ Ran
  \/ Load /\ Ran
  \/ ToggleMarkMode /\ Ran
  \/ events < MaxEvents /\ MoveEnd(Pan(B0, BOUNDS_THRESHOLD)) /\ Ran
  \/ (\E t \in timers : TimerFire(t)) /\ Ran
  \/ Tick(CoarseTick) /\ Ran
  \/ \E f \in fetches : \E data \in Answers(f.bounds, "ok") :
       HeatmapResolve(f, "ok", data) /\ Ran
  \/ \E fn \in LayerFns, maxMag \in LayerMags, zoom \in LayerZooms :
       CreateLayer(fn, SOURCE_NAME, maxMag, zoom)
         /\ Repeated(fn, SOURCE_NAME, maxMag, zoom)

SpecLayers == Init /\ [][NextLayers]_vars

\* The fetches for whatever bounds the map reports: the default viewport,
\* a pan east by the threshold, and bounds whose west edge lies east of
\* their east edge, as bounds across the antimeridian do when longitudes
\* are wrapped into [-180, 180].
Flipped == [w |-> 1799000, s |-> 334000, e |-> -1799000, n |-> 336000]
BoundsViews == {B0, Pan(B0, BOUNDS_THRESHOLD), Flipped}

NextBounds ==
  \/ Start /\ Unwatched
  \/ Load /\ Unwatched
  \/ events < MaxMoves /\ (\E b \in BoundsViews : MoveEnd(b)) /\ Unwatched
  \/ (\E t \in timers : TimerFire(t)) /\ Unwatched
  \/ Tick(CoarseTick) /\ Unwatched
  \/ \E f \in fetches, outcome \in QueryOutcomes :
       \E data \in Answers(f.bounds, outcome) :
         HeatmapResolve(f, outcome, data) /\ Unwatched

SpecBounds == Init /\ [][NextBounds]_vars

\* A viewport drifting east in steps of half the threshold, every step
\* evaluated before the next is made; the store answers every query with
\* the rows.
DriftViews == {B0, Pan(B0, 5), Pan(B0, 10)}

NextDrift ==
  \/ Start /\ Unwatched
  \/ Load /\ Unwatched
  \/ /\ events < MaxMoves
     /\ timers = {}
     /\ (\E b \in DriftViews : MoveEnd(b))
     /\ Unwatched
  \/ (\E t \in timers : TimerFire(t)) /\ Unwatched
  \/ TickUntil(CoarseTick, MaxDriftTime) /\ Unwatched
  \/ \E f \in fetches : \E data \in Answers(f.bounds, "ok") :
       HeatmapResolve(f, "ok", data) /\ Unwatched

SpecDrift == Init /\ [][NextDrift]_vars

\* Mark mode switched while submissions are in flight: clicks on
\* Osm.MAP_COORDS, the answers of the user lookup and of the insert, and
\* the fetches that follow, whose queries come back with the rows or with
\* an error.  The clock stands still.
NextFlight ==
  \/ Start /\ Passed
  \/ Load /\ Passed
  \/ ToggleMarkMode /\ SwitchedOff
  \/ (isMarkModeOn => events < MaxEvents) /\ Click(MAP_COORDS) /\ Passed
  \/ \E sg \in sightings, a \in GetUserAnswers :
       GetUserResolve(sg, a) /\ Looked(a)
  \/ \E sg \in sightings, outcome \in {"ok", "error", "throw"}, us \in StoreMicros :
       InsertResolve(sg, outcome, us) /\ Passed
  \/ \E f \in fetches, outcome \in {"ok", "error"} :
       \E data \in Answers(f.bounds, outcome) :
         HeatmapResolve(f, outcome, data) /\ Passed

SpecFlight == Init /\ [][NextFlight]_vars

\* Initialization repeated: start() called and the load event arriving
\* again at any time, while geolocate events fetch and the store answers.
NextInit ==
  \/ setup.starts < MaxCalls /\ Start /\ Created
  \/ setup.loads < MaxCalls /\ Load /\ Sourced
  \/ events < MaxEvents /\ Geolocate /\ Unwatched
  \/ \E f \in fetches, outcome \in QueryOutcomes :
       \E data \in Answers(f.bounds, outcome) :
         HeatmapResolve(f, outcome, data) /\ Unwatched

SpecInit == Init /\ [][NextInit]_vars

\* The viewport controller under fairness: the user pans between the
\* default viewport and one a threshold east of it, early enough for the
\* timer to fire within the time the run follows, and every query
\* succeeds.  The browser lets time pass and runs the callbacks of due
\* timers, the map's load event arrives once start() has run, and the
\* store answers every query.
LiveViews == {B0, Pan(B0, BOUNDS_THRESHOLD)}

FetchSucceeds ==
  \E f \in fetches, outcome \in {"ok", "nodata"} :
    \E data \in Answers(f.bounds, outcome) :
      HeatmapResolve(f, outcome, data) /\ Unwatched

NextLive ==
  \/ Start /\ Unwatched
  \/ Load /\ Unwatched
  \/ /\ events < MaxMoves
     /\ now + DEBOUNCE_TIMEOUT <= MaxTime
     /\ (\E b \in LiveViews : MoveEnd(b))
     /\ Unwatched
  \/ (\E t \in timers : TimerFire(t)) /\ Unwatched
  \/ Tick(FineTick) /\ Unwatched
  \/ FetchSucceeds

SpecLive ==
  /\ Init
  /\ [][NextLive]_vars
  /\ WF_vars(Start /\ Unwatched)
  /\ WF_vars(Load /\ Unwatched)
  /\ WF_vars((\E t \in timers : TimerFire(t)) /\ Unwatched)
  /\ WF_vars(Tick(FineTick) /\ Unwatched)
  /\ WF_vars(FetchSucceeds)

\* Mark mode as the user sees it: the toolbox, whose button is the only
\* caller of Osm.toggleMarkMode(), the clicks on Osm.MAP_COORDS, and the
\* submissions and fetches that follow.  The clock stands still.
NextUi ==
  \/ Start /\ Unwatched
  \/ Load /\ Unwatched
  \/ ToolboxCreate
  \/ markMode # Null /\ ToggleMarkMode /\ ToolboxToggled
  \/ (isMarkModeOn => events < MaxEvents) /\ Click(MAP_COORDS) /\ Unwatched
  \/ \E sg \in sightings, a \in GetUserAnswers :
       GetUserResolve(sg, a) /\ Unwatched
  \/ \E sg \in sightings, outcome \in {"ok", "error", "throw"}, us \in StoreMicros :
       InsertResolve(sg, outcome, us) /\ Unwatched
  \/ \E f \in fetches, outcome \in QueryOutcomes :
       \E data \in Answers(f.bounds, outcome) :
         HeatmapResolve(f, outcome, data) /\ Unwatched

SpecUi == Init /\ [][NextUi]_vars

\* ------------------------------------------------------------ claims
D == DEBOUNCE_TIMEOUT
T == BOUNDS_THRESHOLD

\* Some edge of the bounds a and b differs by T or more.
EdgeMoved(a, b) ==
  \/ Abs(a.w - b.w) >= T
  \/ Abs(a.e - b.e) >= T
  \/ Abs(a.n - b.n) >= T
  \/ Abs(a.s - b.s) >= T

\* The rows of an answer (none when the store sent no data).
Rows(data) == IF data = Null THEN <<>> ELSE data[1]

\* The features are those of the rows: one per row, in the rows' order,
\* with the row's id, coordinates and creation time.
MadeOf(features, rows) ==
  /\ Len(features) = Len(rows)
  /\ \A i \in 1..Len(rows) :
       /\ features[i].id = rows[i].id
       /\ features[i].coordinates = <<rows[i].lng, rows[i].lat>>
       /\ features[i].time = rows[i].created_at.ms

\* A fetch came back in this step, with or without success.
CameBack == resolved' # resolved
Succeeded(r) == r.outcome \in {"ok", "nodata"}

\* C1: in every reachable state at most one debounce timer is pending,
\* and it is the one Osm.heatmapTimeout names: every moveend event cancels
\* the pending timer before it starts a new one.
C1_OneTimerPending ==
  /\ Cardinality(timers) <= 1
  /\ \A t \in timers : t.id = heatmapTimeout

\* A second moveend event arrived while the first one's timer was pending.
C1_Witness ==
  /\ nextTimerId = 3
  /\ lastEvalTime = -1
  /\ timers = {[id |-> 2, due |-> lastMoveTime + D]}

\* C2: a burst of moveend events, each less than D after the one before,
\* is evaluated exactly once, D after its last event: no evaluation (and no
\* controller fetch) happens before that, and one has happened after it.
C2_BurstEvaluatedOnce ==
  lastMoveTime >= 0 =>
    /\ burstEvals <= 1
    /\ burstFetches <= burstEvals
    /\ (now < lastMoveTime + D) => (burstEvals = 0 /\ timers # {})
    /\ (burstEvals = 1) => (lastEvalTime = lastMoveTime + D)
    /\ (now > lastMoveTime + D) => (burstEvals = 1)

\* A burst of two events, the second inside the first one's window, has
\* been evaluated.
C2_Witness ==
  /\ burstMoves = 2
  /\ lastMoveTime = FineTick
  /\ burstEvals = 1
  /\ lastEvalTime = FineTick + D

\* C3: when the debounce timer fires, _heatmapAsync is called iff no
\* bounds are recorded or some edge of the current bounds differs from the
\* recorded ones by T or more; with the call the current bounds are
\* recorded (and, the source existing, a query for them is sent), without
\* it the recorded bounds, the queries in flight and the source are left
\* alone.
C3_FetchIffBoundsMoved ==
  [][burstEvals' = burstEvals + 1 =>
       LET moved == IF lastBounds = Null THEN TRUE
                    ELSE EdgeMoved(curBounds, lastBounds[1])
       IN /\ moved <=> ctrlFetches' = ctrlFetches + 1
          /\ moved => /\ lastBounds' = Some(curBounds)
                      /\ sourceAdded =>
                           \E f \in fetches' \ fetches : f.bounds = curBounds
          /\ ~moved => UNCHANGED <<lastBounds, fetches, sourceData, ctrlFetches>>
    ]_vars

\* The timer fired for bounds that differ from the recorded ones, by less
\* than T, after an earlier evaluation had fetched: no fetch this time.
C3_Witness ==
  /\ burstEvals = 1
  /\ burstFetches = 0
  /\ ctrlFetches = 1
  /\ lastBounds # Null
  /\ lastBounds # Some(curBounds)

\* C4: whenever the debounce timer fires after a query has been sent to
\* the store, Osm.lastBounds holds the bounds of the most recent query,
\* whoever caused it (the controller, a successful submission, a geolocate
\* event).
C4_LastBoundsOfLastFetch ==
  (Due # {} /\ lastFetchBounds # Null) => lastBounds = lastFetchBounds

\* Moveend events whose bounds all lie within T of one another, edge by edge.
AllWithinT(bs) == \A a, b \in bs : ~EdgeMoved(a, b)

\* C5: while the bounds of all moveend events so far differ from one
\* another by less than T on every edge, the controller has called
\* _heatmapAsync at most once, however many evaluations there were.
C5_OneFetchWithinT ==
  AllWithinT(moveHist) => ctrlFetches <= 1

\* Two moveend events with different bounds within T of each other have
\* been evaluated in two debounce windows: the first evaluation fetched,
\* the second did not.
C5_Witness ==
  /\ Cardinality(moveHist) = 2
  /\ AllWithinT(moveHist)
  /\ ctrlFetches = 1
  /\ burstEvals = 1
  /\ burstFetches = 0

\* C6: a fetch whose query ends with an error or throws leaves the source's
\* contents as they were.
C6_FailedFetchKeepsData ==
  [][(CameBack /\ resolved'.outcome \in {"error", "throw"})
       => sourceData' = sourceData]_vars

\* A query failed while the source held the features of an earlier fetch.
C6_Witness ==
  /\ resolved.outcome = "error"
  /\ writes # <<>>
  /\ sourceData # <<>>

\* C7: after a successful fetch the source holds the features made of that
\* fetch's rows, one per row and nothing else.
C7_SuccessReplaces ==
  Succeeded(resolved) => MadeOf(sourceData, Rows(resolved.data))

\* A successful fetch replaced more features than its answer has rows: a
\* feature of the previous contents is gone.
C7_Witness ==
  /\ resolved.outcome = "ok"
  /\ lastWrite.seq = resolved.seq
  /\ Len(writes) = 2
  /\ lastWrite.replaced > Len(sourceData)
  /\ Len(sourceData) > 0

\* C8: once the source exists it holds the empty collection it started
\* with, or the whole feature collection of one successful fetch, the last
\* one to call setData; never a mixture.
C8_WholeCollection ==
  /\ ~sourceAdded => sourceData = <<>>
  /\ sourceAdded =>
       IF writes = <<>> THEN sourceData = <<>>
       ELSE sourceData = FeatureCollection(lastWrite.data, lastWrite.at)

\* Mid-fetch: the second of two overlapping fetches has written its
\* features, the first is still in flight.
C8_Witness ==
  /\ writes = <<2>>
  /\ sourceData # <<>>
  /\ \E f \in fetches : f.seq = 1

\* C9: the source's contents change only when a fetch comes back with
\* success, and then every feature is made of a row of that answer: no
\* click, submission, toggle or moveend event writes to the source.
C9_OnlyFetchWrites ==
  [][sourceData' # sourceData =>
       /\ CameBack
       /\ Succeeded(resolved')
       /\ \A i \in 1..Len(sourceData') :
            \E j \in 1..Len(Rows(resolved'.data)) :
              /\ sourceData'[i].id = Rows(resolved'.data)[j].id
              /\ sourceData'[i].coordinates =
                   <<Rows(resolved'.data)[j].lng, Rows(resolved'.data)[j].lat>>
    ]_vars

\* A submission has succeeded and its point is in the store, not in the
\* source: the fetch that will show it is still in flight.
C9_Witness ==
  /\ sourceAdded
  /\ sightings = {}
  /\ fetches # {}
  /\ \E p \in points :
       /\ p.id >= 3
       /\ \A i \in 1..Len(sourceData) : sourceData[i].id # p.id

\* C10: a fetch in flight stays in flight until its own answer comes back
\* (no moveend event and no later fetch cancels it), and every successful
\* answer replaces the source's contents when it arrives, whatever the
\* order the fetches were issued in.
C10_LastArrivalWins ==
  [][/\ \A f \in fetches :
          f \notin fetches' => CameBack /\ resolved'.seq = f.seq
     /\ (CameBack /\ Succeeded(resolved')) =>
          /\ lastWrite'.seq = resolved'.seq
          /\ MadeOf(sourceData', Rows(resolved'.data))
    ]_vars

\* Two fetches overlapped and the one issued first came back last: the
\* source holds its features, though the bounds have changed since.
C10_Witness ==
  /\ writes = <<2, 1>>
  /\ resolved.seq = 1
  /\ lastWrite.seq = 1
  /\ sourceData # <<>>
  /\ lastFetchBounds # Null

\* ------------------------------------------------------------ mark mode
\* The step is a call by the user of the kind op, made in the mode on.
UserCalled(op, on) ==
  /\ userCalls' # userCalls
  /\ userCalls' # <<>>
  /\ userCalls'[Len(userCalls')] = [op |-> op, on |-> on]

\* C11: a click handled outside mark mode starts no user lookup, no insert
\* and no fetch, and leaves the mode flag, the store and the source as they
\* were.
C11_ClickIgnoredWhenInactive ==
  [][UserCalled("click", FALSE) =>
       UNCHANGED <<isMarkModeOn, sourceAdded, sourceData, sightings,
                   nextSighting, fetches, fetchSeq, points, nextPointId>>
    ]_vars

\* Mark mode was left with the features of an earlier submission's fetch in
\* the source, and then the map was clicked.
C11_Witness ==
  /\ userCalls = <<[op |-> "toggle", on |-> TRUE], [op |-> "click", on |-> FALSE]>>
  /\ ~isMarkModeOn
  /\ sourceData # <<>>
  /\ sightings = {}

\* C12 as stated: mark mode starts off, every call of toggleMarkMode flips
\* the flag, in any state, and nothing else changes the flag.
C12_EveryToggleFlips ==
  /\ ~isMarkModeOn
  /\ [][/\ (UserCalled("toggle", FALSE) \/ UserCalled("toggle", TRUE))
             => isMarkModeOn' = ~isMarkModeOn
        /\ isMarkModeOn' # isMarkModeOn
             => (UserCalled("toggle", FALSE) \/ UserCalled("toggle", TRUE))
       ]_vars

\* C12, amended: mark mode starts off; a call of toggleMarkMode flips the
\* flag when the map exists and leaves it alone when it does not; nothing
\* else changes the flag.
C12_ToggleFlipsWithMap ==
  /\ ~isMarkModeOn
  /\ [][/\ (UserCalled("toggle", FALSE) \/ UserCalled("toggle", TRUE))
             => isMarkModeOn' = (IF map = Null THEN isMarkModeOn
                                 ELSE ~isMarkModeOn)
        /\ isMarkModeOn' # isMarkModeOn
             => (UserCalled("toggle", FALSE) \/ UserCalled("toggle", TRUE))
       ]_vars

\* toggleMarkMode was called before start(): mark mode is still off.
C12_Witness ==
  /\ map = Null
  /\ userCalls = <<[op |-> "toggle", on |-> FALSE]>>
  /\ ~isMarkModeOn

\* C13: after two calls of toggleMarkMode in a row the flag is what it was
\* before them.
C13_TwoTogglesRestore ==
  (/\ Len(userCalls) = 2
   /\ userCalls[1].op = "toggle"
   /\ userCalls[2].op = "toggle") => isMarkModeOn = userCalls[1].on

\* Mark mode was switched off and on again.
C13_Witness ==
  /\ map # Null
  /\ userCalls = <<[op |-> "toggle", on |-> TRUE], [op |-> "toggle", on |-> FALSE]>>
  /\ isMarkModeOn

\* ------------------------------------------------------------ submissions
\* What is left of the submission sg after the step.
After(sg) == {s2 \in sightings' : s2.id = sg.id}

\* The step ends a submission without a point being stored.
SubmissionFailed == \E sg \in sightings : After(sg) = {} /\ points' = points

\* The step is the answer of the user lookup with the given outcome.
LookupCameBack(outcome) ==
  /\ lastLookup' # Null
  /\ lastLookup'[1].outcome = outcome

\* C14: the step in which an insert comes back with success (the point is
\* stored) is also the call of _heatmapAsync: with the source on the map,
\* one query more is in flight, for the bounds the map has in that step
\* (without the source the call returns and nothing is sent); and no other
\* step of a submission sends a query.
C14_OneFetchAfterInsert ==
  [][/\ points' # points =>
          /\ curBounds' = curBounds
          /\ IF sourceAdded
             THEN /\ fetchSeq' = fetchSeq + 1
                  /\ fetches' = fetches \cup
                       {[seq |-> fetchSeq + 1, bounds |-> curBounds]}
             ELSE UNCHANGED <<fetches, fetchSeq>>
     /\ fetchSeq' # fetchSeq => points' # points
    ]_vars

\* The viewport changed between the click and the answer of its insert:
\* the query in flight is for the new viewport.
C14_Witness ==
  /\ nextSighting = 2
  /\ Cardinality(points) = Cardinality(InitialPoints) + 1
  /\ clickView # Null
  /\ \E f \in fetches : f.bounds = curBounds /\ f.bounds # clickView[1]

RowFor(sg, a) ==
  [lng |-> sg.lng, lat |-> sg.lat,
   user_id |-> IF a.user # Null THEN a.user[1] ELSE ANONYMOUS]

\* The insert of the submission sg is sent in this step, the lookup
\* having answered a.
InsertSent(sg, a) ==
  After(sg) = {[sg EXCEPT !.pc = "insert", !.lookup = Some(a),
                          !.row = Some(RowFor(sg, a))]}

\* C16 as stated: every click taken in mark mode leads to exactly one
\* insert, with the click's coordinates and the user's id or 'anonymous':
\* a submission waiting for the user lookup is not dropped, and leaves
\* that state only with the insert sent.
C16_EveryClickInserts ==
  [][\A sg \in sightings :
       IF sg.pc = "getUser"
       THEN \/ After(sg) = {sg}
            \/ lastLookup' # Null /\ InsertSent(sg, lastLookup'[1])
       ELSE After(sg) \subseteq {sg}
    ]_vars

\* C16, amended: a click taken in mark mode leads to at most one insert:
\* exactly one when the user lookup returns, with the click's coordinates
\* and the id of the user the lookup returned or 'anonymous'; none when
\* the lookup throws.
C16_OneInsertUnlessLookupThrows ==
  [][/\ nextSighting' # nextSighting =>
          /\ isMarkModeOn
          /\ nextSighting' = nextSighting + 1
          /\ \E sg \in sightings' :
               /\ sightings' = sightings \cup {sg}
               /\ sg.id = nextSighting /\ sg.pc = "getUser" /\ sg.row = Null
     /\ \A sg \in sightings :
          IF sg.pc = "getUser"
          THEN \/ After(sg) = {sg}
               \/ LookupCameBack("throw") /\ After(sg) = {}
               \/ /\ lastLookup' # Null
                  /\ lastLookup'[1].outcome # "throw"
                  /\ InsertSent(sg, lastLookup'[1])
          ELSE After(sg) \subseteq {sg}
    ]_vars

\* The insert for a click on Osm.MAP_COORDS by the signed-in user is with
\* the store.
C16_Witness ==
  \E sg \in sightings :
    /\ sg.pc = "insert"
    /\ sg.row = Some([lng |-> MAP_COORDS.lng, lat |-> MAP_COORDS.lat,
                      user_id |-> "u1"])

\* C17: an insert is sent to the store only when the user lookup returned
\* a signed-in user.
C17_InsertOnlyWhenSignedIn ==
  \A sg \in sightings : sg.pc = "insert" => sg.lookup[1].user # Null

\* Longitudes in [-180, 180] and latitudes in [-90, 90], in 1e-4 degree.
ValidLngLat(row) ==
  /\ row.lng >= -1800000 /\ row.lng <= 1800000
  /\ row.lat >= -900000 /\ row.lat <= 900000

\* C19: no insert is sent to the store, and no point stored, with a
\* longitude or latitude outside the valid range.
C19_NoInsertOutOfRange ==
  /\ \A sg \in sightings : sg.pc = "insert" => ValidLngLat(sg.row[1])
  /\ \A p \in points : ValidLngLat(p)

\* ------------------------------------------------------------ retry
\* The query sent last has come back with an error or a throw, and none
\* has been sent since.
LastFetchFailed ==
  /\ resolved.outcome \in {"error", "throw"}
  /\ resolved.seq = fetchSeq
  /\ fetches = {}

\* C18: a failed fetch schedules nothing, and when the debounce timer of
\* a moveend event that came after the failure fires, a new query is sent,
\* whatever the bounds of that event.
C18_NextMoveRetries ==
  [][/\ (CameBack /\ ~Succeeded(resolved')) =>
          UNCHANGED <<timers, heatmapTimeout, fetchSeq>>
     /\ (LastFetchFailed /\ movedSince /\ burstEvals' = burstEvals + 1) =>
          /\ fetchSeq' = fetchSeq + 1
          /\ \E f \in fetches' : f.seq = fetchSeq' /\ f.bounds = curBounds
    ]_vars

\* ------------------------------------------------------------ decay
\* The floor and the ceiling of the magnitude, in 1e-3.
MinWeight == 100
MaxWeight == 1000 * HEATMAP_MAX_MAG

\* The age a is at most the age b.
NotOlder(a, b) == a.days < b.days \/ (a.days = b.days /\ a.ms <= b.ms)

\* C20: the magnitude of a point of age >= 0 lies in [0.1, 5], is exactly
\* 5 at age 0, and does not grow as the point grows older.
C20_WeightBoundedMonotone ==
  /\ [](mag # Null =>
          /\ mag[1] >= MinWeight
          /\ mag[1] <= MaxWeight
          /\ (age = [days |-> 0, ms |-> 0] => mag[1] = MaxWeight))
  /\ [][(mag # Null /\ mag' # Null /\ NotOlder(age, age'))
          => mag'[1] <= mag[1]]_vars

\* A point weighed above the floor is weighed again half a day later, at
\* the floor.
C20_Witness ==
  /\ weighings = 2
  /\ age.days >= 117
  /\ age.ms = MS_PER_DAY \div 2
  /\ mag = Some(MinWeight)
  /\ MagOfAge(age.days, 0) > MinWeight

\* The day in the course of which 5 * exp(-age / 30) falls to the floor
\* 0.1 (at 30 * ln 50 = 117.36 days).
FloorDay ==
  CHOOSE d \in 0..(Len(DecayTable) - 2) :
    DecayTable[d + 1] > MinWeight /\ DecayTable[d + 2] <= MinWeight

\* C22 as stated: the magnitude of a point is greater than 0.1 at every
\* age, never equal to it.
C22_WeightAboveFloor ==
  mag # Null => mag[1] > MinWeight

\* C22, amended: the magnitude is never below 0.1; it is greater than 0.1
\* up to the day the exponential falls to the floor, and exactly 0.1 from
\* the day after on.
C22_FloorReached ==
  mag # Null =>
    /\ mag[1] >= MinWeight
    /\ age.days < FloorDay => mag[1] > MinWeight
    /\ age.days > FloorDay => mag[1] = MinWeight

\* A point older than the day of the floor is weighed for the first time:
\* its magnitude is the floor itself.
C22_Witness ==
  /\ weighings = 1
  /\ age.days > FloorDay
  /\ age.ms = 0
  /\ mag = Some(MinWeight)

\* ------------------------------------------------------------ features
\* C21: every feature in the source has a magnitude in [0.1, 5], whatever
\* creation time the store returned for its point, a time after the
\* client's current time included.
C21_FeatureWeightInRange ==
  \A i \in 1..Len(sourceData) :
    /\ sourceData[i].mag >= MinWeight
    /\ sourceData[i].mag <= MaxWeight

\* The last two fetches that called setData asked for the same bounds,
\* and the store answered both with the rows.
SameBoundsTwice ==
  /\ Len(shown) = 2
  /\ shown[1].bounds = shown[2].bounds
  /\ shown[1].outcome = "ok" /\ shown[2].outcome = "ok"

\* A feature without its magnitude.
Sans(ft) == [id |-> ft.id, coordinates |-> ft.coordinates, time |-> ft.time]
Points(features) == {Sans(features[i]) : i \in 1..Len(features)}

\* The features are in the order of their creation times, newest first.
Descending(features) ==
  \A i, j \in 1..Len(features) : i < j => features[i].time >= features[j].time

\* The features as a set, magnitudes included.
Weighted(features) == {features[i] : i \in 1..Len(features)}

\* C23 as stated: two successful fetches for the same bounds against an
\* unchanged store give the source the same features, with the same
\* coordinates and the same magnitudes, whenever they are made (the order
\* of points of equal creation time left aside).
C23_SameCollection ==
  SameBoundsTwice =>
    /\ Len(shown[1].features) = Len(shown[2].features)
    /\ Weighted(shown[1].features) = Weighted(shown[2].features)

\* C23, amended: two successful fetches for the same bounds against an
\* unchanged store give the source the same points (ids, coordinates,
\* creation times), newest first, points of equal creation time in the
\* order the store chose; the magnitudes are the same when the two
\* fetches are made at the same time, and those of the later fetch are
\* never greater.
C23_SamePointsWeightsByTime ==
  SameBoundsTwice =>
    LET old == shown[1].features
        new == shown[2].features
    IN /\ Len(new) = Len(old)
       /\ Points(new) = Points(old)
       /\ Descending(old) /\ Descending(new)
       /\ \A i \in 1..Len(old), j \in 1..Len(new) :
            old[i].id = new[j].id =>
              /\ new[j].mag <= old[i].mag
              /\ shown[1].at = shown[2].at => new[j].mag = old[i].mag

\* The same query was answered twice, a debounce delay apart: the same
\* points, their magnitudes no longer the same.
C23_Witness ==
  /\ SameBoundsTwice
  /\ shown[2].at = shown[1].at + CoarseTick
  /\ shown[1].features # <<>>
  /\ Points(shown[1].features) = Points(shown[2].features)
  /\ Weighted(shown[1].features) # Weighted(shown[2].features)

\* C24: a query is sent for the bounds the map has when the fetch starts;
\* its answer holds exactly the store's points with west <= lng <= east
\* and south <= lat <= north, each once, newest first; and the source is
\* given one feature per row, in the rows' order, with the row's id, its
\* coordinates [lng, lat] and its creation time in milliseconds.
C24_QueryAndFeatures ==
  [][/\ \A f \in fetches' \ fetches :
          f.bounds = curBounds /\ curBounds' = curBounds
     /\ (CameBack /\ resolved'.outcome = "ok") =>
          \E f \in fetches \ fetches' :
            LET rows == resolved'.data[1]
                b == f.bounds
            IN /\ {rows[i] : i \in 1..Len(rows)} =
                    {p \in points : /\ b.w <= p.lng /\ p.lng <= b.e
                                    /\ b.s <= p.lat /\ p.lat <= b.n}
               /\ \A i, j \in 1..Len(rows) :
                    i < j => /\ rows[i] # rows[j]
                             /\ ~Newer(rows[j].created_at, rows[i].created_at)
               /\ MadeOf(sourceData', rows)
    ]_vars

\* The store holds a point on the west edge of the viewport and one just
\* west of it: the source shows the first, after the point created at the
\* same time, and not the second.
C24_Witness ==
  /\ points = EdgePoints
  /\ resolved.outcome = "ok"
  /\ lastWrite.seq = resolved.seq
  /\ Len(sourceData) = 2
  /\ sourceData[1].id = 3
  /\ sourceData[2].id = 1
  /\ sourceData[2].coordinates = <<B0.w, 335000>>

\* C25: a fetch whose query is answered with no rows (an empty list, or
\* no data at all) calls setData all the same, with a feature collection
\* of no features: the source holds the empty collection afterwards,
\* whatever it held before.
C25_EmptyAnswerReplaces ==
  [][(/\ CameBack
      /\ Succeeded(resolved')
      /\ Rows(resolved'.data) = <<>>)
     => /\ sourceData' = <<>>
        /\ writes' = Append(writes, resolved'.seq)
        /\ lastWrite'.replaced = Len(sourceData)
    ]_vars

\* The user panned to where no point is: the query came back with an empty
\* list, and the feature the source held is gone.
C25_Witness ==
  /\ resolved.outcome = "ok"
  /\ resolved.data = Some(<<>>)
  /\ lastWrite.seq = resolved.seq
  /\ lastWrite.replaced > 0
  /\ sourceData = <<>>
  /\ Len(shown) = 2
  /\ shown[1].features # <<>>

\* ------------------------------------------------------------ causes
\* C26: a query is sent to the store only by an evaluation of the debounce
\* timer that finds no recorded bounds or the bounds moved by T or more,
\* or by an insert that came back with success; by nothing else, and not
\* by a geolocate event.
C26_QueriesByControllerOrInsert ==
  [][fetchSeq' # fetchSeq =>
       \/ /\ burstEvals' = burstEvals + 1
          /\ (lastBounds = Null \/ EdgeMoved(curBounds, lastBounds[1]))
       \/ points' # points
    ]_vars

\* ------------------------------------------------------------ layer builders
\* The two calls have the same arguments.
SameCall(a, b) ==
  /\ a.fn = b.fn /\ a.src = b.src /\ a.mag = b.mag /\ a.zoom = b.zoom

MagStops(l) ==
  IF l.fn = "createHeatmapLayer"
  THEN {l.spec.paint.heatmap_weight.stops}
  ELSE {l.spec.paint.circle_radius.stops[i][2].stops : i \in 1..3}

\* C28: no layer specification is returned whose interpolation over the
\* magnitude ends at a stop of 0 or less: a builder called with a maximum
\* magnitude of 0 or less rejects it or clamps it to a positive value.
C28_NoDegenerateWeight ==
  layer # Null => \A stops \in MagStops(layer[1]) : stops[Len(stops)][1] > 0

\* C29: the intensity of the heatmap layer is interpolated between a stop
\* at the reference zoom and a stop four levels above it, and the
\* multiplier at the first is lower than the multiplier at the second.
C29_IntensityRises ==
  (layer # Null /\ layer[1].fn = "createHeatmapLayer") =>
    LET stops == layer[1].spec.paint.heatmap_intensity.stops
    IN /\ Len(stops) = 2
       /\ stops[1][1] = layer[1].zoom
       /\ stops[2][1] = layer[1].zoom + Tenths(4)
       /\ stops[1][2] < stops[2][2]

\* C30: the opacity of the heatmap layer is 1 at the reference zoom and 0
\* two levels above it, the two stops in ascending order of zoom.
C30_OpacityFades ==
  (layer # Null /\ layer[1].fn = "createHeatmapLayer") =>
    LET stops == layer[1].spec.paint.heatmap_opacity.stops
    IN /\ Len(stops) = 2
       /\ stops[1] = <<layer[1].zoom, Tenths(1)>>
       /\ stops[2] = <<layer[1].zoom + Tenths(2), 0>>
       /\ stops[1][1] < stops[2][1]

\* ------------------------------------------------------------ bounds
\* The bounds are not degenerate: west <= east and south <= north.
WellFormed(b) == b.w <= b.e /\ b.s <= b.n

Evaluated == burstEvals' = burstEvals + 1

\* C32: an evaluation that finds the bounds within T of the recorded ones
\* leaves the recorded bounds as they are, and the recorded bounds change
\* only with a call of _heatmapAsync; so once the last viewport change
\* has been evaluated the viewport is within T of the recorded bounds on
\* every edge, however many steps of less than T led to it.
C32_NoDrift ==
  /\ []((timers = {} /\ lastEvalTime >= 0) =>
          (lastBounds # Null /\ ~EdgeMoved(curBounds, lastBounds[1])))
  /\ [][/\ (Evaluated /\ lastBounds # Null /\ ~EdgeMoved(curBounds, lastBounds[1]))
              => lastBounds' = lastBounds
        /\ lastBounds' # lastBounds =>
              /\ Evaluated
              /\ ctrlFetches' = ctrlFetches + 1
              /\ sourceAdded => fetchSeq' = fetchSeq + 1
       ]_vars

\* The viewport went east by half the threshold twice, each step
\* evaluated: the first step found the bounds equal, the second found
\* them a threshold away from the recorded ones and fetched.
C32_Witness ==
  /\ events = 3
  /\ moveHist = DriftViews
  /\ curBounds = Pan(B0, 10)
  /\ lastBounds = Some(Pan(B0, 10))
  /\ ctrlFetches = 2
  /\ burstFetches = 1
  /\ lastEvalTime = MaxDriftTime

\* ------------------------------------------------------------ other fetches
\* C33: a step that sends a query without being an evaluation of the
\* timer's callback (the fetch after a stored submission, the fetch of a
\* geolocate event), and any step that stores a submission, leaves the
\* recorded bounds, the timer's handle and the pending timers as they
\* were; a submission stored while a timer is pending sends its own query
\* at once, if the source is there.
C33_OtherFetchesLeaveController ==
  [][/\ ((fetchSeq' # fetchSeq /\ ~Evaluated) \/ points' # points)
          => UNCHANGED <<lastBounds, heatmapTimeout, timers, nextTimerId>>
     /\ (points' # points /\ sourceAdded) =>
          /\ fetchSeq' = fetchSeq + 1
          /\ ~Evaluated
          /\ ctrlFetches' = ctrlFetches
    ]_vars

\* A submission was stored inside the debounce window of a moveend event
\* and fetched at once; the timer then fired and the controller, no bounds
\* being recorded yet, fetched too.
C33_Witness ==
  /\ lastMoveTime >= 0
  /\ \E p \in points : /\ p.id >= 3
                        /\ p.created_at.ms >= lastMoveTime
                        /\ p.created_at.ms < lastMoveTime + D
  /\ burstEvals = 1
  /\ lastEvalTime = lastMoveTime + D
  /\ fetchSeq = 2
  /\ ctrlFetches = 1
  /\ lastBounds = Some(curBounds)

\* ------------------------------------------------------------ in flight
\* C34: the mode is read when the click is handled and not again.  While
\* mark mode is off, a user lookup that comes back without a throw still
\* sends the insert, a stored point still sends the query for the current
\* bounds (if the source is there), and a query that succeeds still
\* replaces the source's data; and switching the mode changes no
\* submission, fetch, point or feature.
C34_FlagReadOncePerClick ==
  /\ [][~isMarkModeOn =>
          /\ (lastLookup' # Null /\ lastLookup'[1].outcome # "throw") =>
                \E s2 \in sightings' \ sightings :
                  s2.pc = "insert" /\ s2.row # Null
          /\ (points' # points /\ sourceAdded) =>
                /\ fetchSeq' = fetchSeq + 1
                /\ \E f \in fetches' \ fetches : f.bounds = curBounds
          /\ (CameBack /\ Succeeded(resolved')) =>
                sourceData' = FeatureCollection(resolved'.data, now)
       ]_vars
  /\ [][isMarkModeOn' # isMarkModeOn =>
          UNCHANGED <<sightings, fetches, points, sourceData>>]_vars

\* Mark mode was switched off while the only submission was awaiting the
\* user lookup, and stayed off: the point is stored, and the source shows it.
C34_Witness ==
  /\ ~isMarkModeOn
  /\ nextSighting = 2
  /\ \E sg \in offInFlight : sg.pc = "getUser"
  /\ sightings = {}
  /\ fetches = {}
  /\ \E p \in points : /\ p.id = 3
                        /\ \E i \in 1..Len(sourceData) : sourceData[i].id = p.id

\* ------------------------------------------------------------ before load
\* C35: as long as the map has no source, no query has been sent and
\* nothing written, whatever called _heatmapAsync; a step taken without
\* the source sends no query and writes nothing; and an evaluation by the
\* timer's callback that finds no bounds recorded, or the bounds moved,
\* records the current bounds all the same.
C35_NoFetchBeforeSource ==
  /\ [](~sourceAdded => /\ fetchSeq = 0 /\ fetches = {} /\ lastFetchBounds = Null
                        /\ sourceData = <<>> /\ writes = <<>>)
  /\ [][~sourceAdded =>
          /\ UNCHANGED <<fetchSeq, fetches, lastFetchBounds, sourceData, writes>>
          /\ (Evaluated /\ (lastBounds = Null \/ EdgeMoved(curBounds, lastBounds[1])))
               => /\ lastBounds' = Some(curBounds)
                  /\ ctrlFetches' = ctrlFetches + 1
       ]_vars

\* The timer fired before the map's load event: the bounds are recorded,
\* the controller has called _heatmapAsync, and no query was sent.
C35_Witness ==
  /\ ~sourceAdded
  /\ burstEvals = 1
  /\ ctrlFetches = 1
  /\ lastBounds = Some(curBounds)
  /\ fetchSeq = 0
  /\ sourceData = <<>>

C37_EventuallyFetched ==
  /\ (timers # {}) ~> (timers = {})
  /\ [][(Evaluated /\ (lastBounds = Null \/ EdgeMoved(curBounds, lastBounds[1])))
          => ctrlFetches' = ctrlFetches + 1]_vars
  /\ (fetches # {}) ~> (fetches = {})
  /\ (ctrlFetches > 0) ~> (writes # <<>> /\ fetches = {})

\* ------------------------------------------------------------ display
\* C38: once the map exists, the canvas has the cursor "crosshair" exactly
\* when mark mode is on and the default cursor (no cursor of its own)
\* exactly when it is off; and the toolbox's markMode is the engine's
\* flag, from the creation of the component through every toggle made
\* with it.
C38_CursorAndButtonFollowMode ==
  /\ map # Null => /\ (cursor = "crosshair") <=> isMarkModeOn
                   /\ (cursor = "") <=> ~isMarkModeOn
  /\ markMode # Null => markMode[1] = isMarkModeOn

\* Mark mode was switched on with the toolbox and a click was taken as a
\* submission: the cursor is the crosshair and the toolbox shows the mode on.
C38_Witness ==
  /\ isMarkModeOn
  /\ cursor = "crosshair"
  /\ markMode = Some(TRUE)
  /\ nextSighting > 1

====
